---- MODULE Spec2Model ----
(***************************************************************************)
(* A model of drudid's dataset pipeline (src/drudid/dataset.py):           *)
(*   pull    : paginated fetch of the remote API into the Page Store       *)
(*   merge   : batched merge of the page files into the interim CSV table  *)
(*   convert : chunked read of the interim table and the Parquet write     *)
(* The pull stage is explored by SpecPull, merge followed by convert by    *)
(* SpecTable.                                                              *)
(***************************************************************************)
EXTENDS Integers, Sequences, FiniteSets, TLC

VARIABLES
    \* ---- pull ----
    raw_dir,      \* RAW_DATA_DIR exists on disk
    store,        \* the Page Store: page index -> state of page_<i>.json
    pc,           \* position of the pull process
    start_page,   \* argument start_page
    end_page,     \* the effective end_page (exclusive)
    force,        \* argument --force
    i,            \* loop variable of `for i in range(start_page, end_page)`
    response,     \* the value returned by fetcher.fetch_data for page i
    runs,         \* number of pull runs started so far
    fetched,      \* history: page index -> fetches issued in the current run
    wrote,        \* history: page indices whose file was opened "wb" in the current run
    failed,       \* history: page indices whose fetch failed in the current run
    visited,      \* history: page indices the loop body ran for, in order
    store0,       \* history: the Page Store when the current run started
    raw_dir0,     \* history: whether RAW_DATA_DIR existed when the run started
    end_arg,      \* history: the end_page argument as passed (None when unset)
    prev,         \* history: summary of the run before the current one
    \* ---- merge ----
    mpc,          \* position of the merge / convert process
    files,        \* glob.glob(RAW_DATA_DIR / "*.json"): contents, in discovery order
    chunk_size,   \* argument --chunk-size of the running stage
    chunk_start,  \* loop variable of merge's batch loop
    first_chunk,  \* merge's first_chunk flag
    total_rows,   \* merge's running total
    table,        \* the interim table merged.csv
    \* ---- convert ----
    df,           \* the DataFrame loaded from the interim table
    dataset,      \* the columnar dataset merged.parquet
    outcome,      \* how convert ended, as its caller sees it
    log,          \* convert's error log lines, in order
    events        \* history: the operations of the convert run that can fail, with their results

pullVars == <<raw_dir, store, pc, start_page, end_page, force, i, response,
              runs, fetched, wrote, failed, visited, store0, raw_dir0, end_arg,
              prev>>

tableVars == <<mpc, files, chunk_size, chunk_start, first_chunk, total_rows,
               table, df, dataset, outcome, log, events>>

vars == <<pullVars, tableVars>>

-----------------------------------------------------------------------------
\* Bounds of the model.
MaxPage == 3      \* page indices are 0 .. MaxPage-1
MaxRuns == 2      \* pull runs explored one after the other

Pages == 0 .. (MaxPage - 1)

\* Optional integer argument (typer.Option(None)).
None == <<>>
Some(n) == <<n>>

\* States of one page file.
Absent == [kind |-> "absent"]
\* created/truncated by open(file_path, "wb"), payload not (fully) written yet
Partial == [kind |-> "partial"]
\* orjson.dumps(response.json()) of the response fetched for page p in run r
Payload(p, r) == [kind |-> "json", page |-> p, gen |-> r]

IsComplete(f) == f.kind = "json"

\* file_path.exists()
Exists(p) == store[p] # Absent

NoRun == [start |-> 0, end |-> 0, outcome |-> "none", fromEmpty |-> FALSE,
          allOk |-> FALSE]

\* Summary of the current run, taken when the next run starts.
Summary == [start |-> start_page, end |-> end_page, outcome |-> pc,
            fromEmpty |-> (\A p \in Pages : store0[p] = Absent),
            allOk |-> (failed = {})]

-----------------------------------------------------------------------------
\* Data of the merge and convert stages.

MaxFiles == 3     \* page files found by merge
MaxChunk == 3     \* largest --chunk-size explored

\* The elements of a sequence.
SeqRange(q) == {q[k] : k \in 1 .. Len(q)}

Min(a, b) == IF a <= b THEN a ELSE b

\* A record is a JSON object: its (field, value) pairs in document order.
R1 == << <<"id", "1">> >>
R2 == << <<"id", "2">> >>
R3 == << <<"id", "3">>, <<"title", "x">> >>
R4 == << <<"title", "y">>, <<"id", "4">> >>

\* Contents of a page file: bytes orjson cannot parse (an empty or truncated
\* file among them), a JSON object without the "list" key, or a JSON object
\* whose "list" is an array of records.
BadDoc == [kind |-> "bad"]
NoListDoc == [kind |-> "nolist"]
ListDoc(recs) == [kind |-> "list", list |-> recs]

DocSet == {BadDoc, NoListDoc, ListDoc(<<>>), ListDoc(<<R1, R2>>),
           ListDoc(<<R3>>), ListDoc(<<R4, R1>>)}

\* The possible results of glob.glob: every list of at most MaxFiles files,
\* in every order.
FileLists == UNION {[1 .. n -> DocSet] : n \in 0 .. MaxFiles}

\* pandas' missing value.
NaN == "<NaN>"

\* rec[c] for a record that has field c.
FieldValue(rec, c) == rec[CHOOSE j \in 1 .. Len(rec) : rec[j][1] = c][2]

HasField(rec, c) == \E j \in 1 .. Len(rec) : rec[j][1] = c

\* The names in `names` not yet in `cols`, appended in order.
RECURSIVE AddColumns(_, _)
AddColumns(cols, names) ==
    IF names = <<>> THEN cols
    ELSE AddColumns(IF Head(names) \in SeqRange(cols) THEN cols
                    ELSE Append(cols, Head(names)),
                    Tail(names))

FieldNames(rec) == [j \in 1 .. Len(rec) |-> rec[j][1]]

\* Columns of pd.DataFrame(items): the keys of the items in order of first
\* appearance.
RECURSIVE ItemColumns(_, _)
ItemColumns(items, cols) ==
    IF items = <<>> THEN cols
    ELSE ItemColumns(Tail(items), AddColumns(cols, FieldNames(Head(items))))

\* pd.DataFrame(items): one row per item, NaN where an item lacks a column.
\* A row maps each column name to its cell.
DataFrame(items) ==
    LET cols == ItemColumns(items, <<>>)
    IN  [columns |-> cols,
         rows |-> [k \in 1 .. Len(items) |->
                     [c \in SeqRange(cols) |->
                        IF HasField(items[k], c) THEN FieldValue(items[k], c)
                        ELSE NaN]]]

\* A row re-indexed to the columns `cols`.
Reindex(row, cols) ==
    [c \in SeqRange(cols) |-> IF c \in DOMAIN row THEN row[c] ELSE NaN]

\* pd.concat(frames, ignore_index=True): the union of the frames' columns in
\* order of first appearance, the rows of all frames re-indexed to it.
RECURSIVE ConcatColumns(_, _)
ConcatColumns(frames, cols) ==
    IF frames = <<>> THEN cols
    ELSE ConcatColumns(Tail(frames), AddColumns(cols, Head(frames).columns))

RECURSIVE ConcatRows(_, _)
ConcatRows(frames, cols) ==
    IF frames = <<>> THEN <<>>
    ELSE [k \in 1 .. Len(Head(frames).rows) |-> Reindex(Head(frames).rows[k], cols)]
         \o ConcatRows(Tail(frames), cols)

Concat(frames) ==
    LET cols == ConcatColumns(frames, <<>>)
    IN  [columns |-> cols, rows |-> ConcatRows(frames, cols)]

\* One line of a CSV file: its cells.  `kind` records whether to_csv wrote the
\* line as a header or as a data row (the file itself does not tell).
Line(kind, cells) == [kind |-> kind, cells |-> cells]

\* DataFrame.to_csv(index=False, header=...): the header line when asked for,
\* then one line per row, the cells in column order, NaN written as "".
ToCsv(frame, header) ==
    (IF header THEN <<Line("header", frame.columns)>> ELSE <<>>)
    \o [k \in 1 .. Len(frame.rows) |->
          Line("row", [j \in 1 .. Len(frame.columns) |->
                         IF frame.rows[k][frame.columns[j]] = NaN THEN ""
                         ELSE frame.rows[k][frame.columns[j]]])]

\* The interim table file.
NoTable == [exists |-> FALSE, lines |-> <<>>]
\* A table left by an earlier merge run.
StaleTable == [exists |-> TRUE,
               lines |-> <<Line("header", <<"id">>), Line("row", <<"9">>)>>]

NoFrame == [columns |-> <<>>, rows |-> <<>>]
NoDataset == [exists |-> FALSE, columns |-> <<>>, rows |-> <<>>, compression |-> "-"]

TableIdle ==
    /\ mpc = "idle"
    /\ files = <<>>
    /\ chunk_size = 1
    /\ chunk_start = 0
    /\ first_chunk = TRUE
    /\ total_rows = 0
    /\ df = NoFrame
    /\ dataset = NoDataset
    /\ outcome = "none"
    /\ log = <<>>
    /\ events = <<>>

PullIdle ==
    /\ store = [p \in Pages |-> Absent]
    /\ pc = "idle"
    /\ start_page = 0
    /\ end_page = 0
    /\ force = FALSE
    /\ i = 0
    /\ response = Absent
    /\ runs = 0
    /\ fetched = [p \in Pages |-> 0]
    /\ wrote = {}
    /\ failed = {}
    /\ visited = <<>>
    /\ store0 = [p \in Pages |-> Absent]
    /\ raw_dir0 = raw_dir
    /\ end_arg = None
    /\ prev = NoRun

InitPull ==
    /\ raw_dir \in BOOLEAN
    /\ PullIdle
    /\ TableIdle
    /\ table = NoTable

InitTable ==
    /\ raw_dir \in BOOLEAN
    /\ PullIdle
    /\ TableIdle
    /\ table \in {NoTable, StaleTable}

-----------------------------------------------------------------------------
\* pull

\* Variant of RangeInvalid: the comparison is strict (`end_page < start_page`).
RangeInvalidStrict(s, e) == e # None /\ e[1] < s

\* `if end_page is not None: if end_page <= start_page` (configuration error)
RangeInvalid(s, e) == e # None /\ e[1] <= s

\* The end pages the loop may run to: the explicit one; when end_page is unset,
\* start_page + 1 under DEV_MODE and fetcher.get_total_pages(params), any
\* page count the remote source reports, otherwise.
EffectiveEnds(s, e) ==
    IF e # None THEN {e[1]} ELSE {s + 1} \cup (0 .. MaxPage)

\* Variant of SkipPage: the existence check is missing.
SkipPageNever == FALSE

\* Variant of SkipPage: --force is ignored.
SkipPageIgnoreForce == Exists(i)

\* `if file_path.exists() and not force: continue`
SkipPage == Exists(i) /\ ~force

\* pull(start_page, end_page, force) up to the first loop iteration.
PullStart ==
    /\ pc \in {"idle", "done", "error", "killed"}
    /\ runs < MaxRuns
    /\ \E s \in Pages, e \in {None} \cup {Some(n) : n \in 0 .. MaxPage},
          f \in BOOLEAN :
        /\ start_page' = s
        /\ force' = f
        /\ raw_dir' = TRUE          \* dataset_dir.mkdir(parents=True, exist_ok=True)
        /\ IF RangeInvalid(s, e)
             THEN /\ pc' = "error"  \* logger.error(...); return
                  /\ end_page' = e[1]
             ELSE /\ pc' = "loop"
                  /\ end_page' \in EffectiveEnds(s, e)
        /\ i' = s
        /\ end_arg' = e
    /\ raw_dir0' = raw_dir
    /\ runs' = runs + 1
    /\ prev' = IF pc = "idle" THEN NoRun ELSE Summary
    /\ fetched' = [p \in Pages |-> 0]
    /\ wrote' = {}
    /\ failed' = {}
    /\ visited' = <<>>
    /\ store0' = store
    /\ response' = Absent
    /\ UNCHANGED <<store, tableVars>>

\* One iteration that skips an existing page file.
PullSkip ==
    /\ pc = "loop"
    /\ i < end_page
    /\ SkipPage
    /\ visited' = Append(visited, i)
    /\ i' = i + 1
    /\ UNCHANGED <<raw_dir, store, pc, start_page, end_page, force, response,
                   runs, fetched, wrote, failed, store0, raw_dir0, end_arg, prev, tableVars>>

\* Variant of PullFetch: a failed fetch is tried again (i is not advanced).
PullFetchRetry ==
    /\ pc = "loop"
    /\ i < end_page
    /\ ~SkipPage
    /\ visited' = Append(visited, i)
    /\ fetched' = [fetched EXCEPT ![i] = IF @ < 2 THEN @ + 1 ELSE @]
    /\ \E ok \in BOOLEAN :
         IF ok
           THEN /\ response' = Payload(i, runs)
                /\ pc' = "open"
                /\ UNCHANGED <<i, failed>>
           ELSE /\ response' = Absent
                /\ failed' = failed \cup {i}
                /\ Len(visited) < MaxPage
                /\ UNCHANGED <<i, pc>>
    /\ UNCHANGED <<raw_dir, store, start_page, end_page, force, runs, wrote,
                   store0, raw_dir0, end_arg, prev, tableVars>>

\* One iteration up to the fetch: params["page"] = str(i); sleep;
\* response = fetcher.fetch_data(params).  The fetch either returns an
\* httpx.Response or a failure marker.
PullFetch ==
    /\ pc = "loop"
    /\ i < end_page
    /\ ~SkipPage
    /\ visited' = Append(visited, i)
    /\ fetched' = [fetched EXCEPT ![i] = @ + 1]
    /\ \E ok \in BOOLEAN :
         IF ok
           THEN /\ response' = Payload(i, runs)
                /\ pc' = "open"
                /\ UNCHANGED <<i, failed>>
           ELSE \* not an httpx.Response: nothing is written, next index
                /\ response' = Absent
                /\ failed' = failed \cup {i}
                /\ i' = i + 1
                /\ UNCHANGED pc
    /\ UNCHANGED <<raw_dir, store, start_page, end_page, force, runs, wrote,
                   store0, raw_dir0, end_arg, prev, tableVars>>

\* `with open(file_path, "wb") as f:` creates or truncates the page file.
PullOpen ==
    /\ pc = "open"
    /\ store' = [store EXCEPT ![i] = Partial]
    /\ wrote' = wrote \cup {i}
    /\ pc' = "write"
    /\ UNCHANGED <<raw_dir, start_page, end_page, force, i, response, runs,
                   fetched, failed, visited, store0, raw_dir0, end_arg, prev, tableVars>>

\* `f.write(orjson.dumps(response.json()))` and the close of the file.
PullWrite ==
    /\ pc = "write"
    /\ store' = [store EXCEPT ![i] = response]
    /\ i' = i + 1
    /\ pc' = "loop"
    /\ UNCHANGED <<raw_dir, start_page, end_page, force, response, runs,
                   fetched, wrote, failed, visited, store0, raw_dir0, end_arg, prev, tableVars>>

\* The loop is exhausted: pull returns.
PullDone ==
    /\ pc = "loop"
    /\ i >= end_page
    /\ pc' = "done"
    /\ UNCHANGED <<raw_dir, store, start_page, end_page, force, i, response,
                   runs, fetched, wrote, failed, visited, store0, raw_dir0, end_arg, prev, tableVars>>

\* External termination of the process, at any point of a run.
PullKill ==
    /\ pc \in {"loop", "open", "write"}
    /\ pc' = "killed"
    /\ UNCHANGED <<raw_dir, store, start_page, end_page, force, i, response,
                   runs, fetched, wrote, failed, visited, store0, raw_dir0, end_arg, prev, tableVars>>

NextPull ==
    \/ PullStart
    \/ PullSkip
    \/ PullFetch
    \/ PullOpen
    \/ PullWrite
    \/ PullDone
    \/ PullKill

SpecPull == InitPull /\ [][NextPull]_vars

-----------------------------------------------------------------------------
\* merge

\* The records a page file contributes: the "list" array of a file that
\* parses and has the key; nothing for a file that fails to parse (logged by
\* the except clause) or lacks the key (logged as unexpected structure).
FileItems(doc) == IF doc.kind = "list" THEN doc.list ELSE <<>>

\* Variant of ChunkDataframes: a file that cannot be used ends the batch
\* (break instead of continue).
RECURSIVE ChunkDataframesBreak(_)
ChunkDataframesBreak(chunk_files) ==
    IF chunk_files = <<>> THEN <<>>
    ELSE IF Head(chunk_files).kind # "list" THEN <<>>
    ELSE (IF FileItems(Head(chunk_files)) # <<>>
            THEN <<DataFrame(FileItems(Head(chunk_files)))>> ELSE <<>>)
         \o ChunkDataframesBreak(Tail(chunk_files))

\* chunk_dataframes of one batch: a DataFrame per file with a non-empty list.
RECURSIVE ChunkDataframes(_)
ChunkDataframes(chunk_files) ==
    IF chunk_files = <<>> THEN <<>>
    ELSE (IF FileItems(Head(chunk_files)) # <<>>
            THEN <<DataFrame(FileItems(Head(chunk_files)))>> ELSE <<>>)
         \o ChunkDataframes(Tail(chunk_files))

\* files[chunk_start : chunk_start + chunk_size]
ChunkFiles ==
    SubSeq(files, chunk_start + 1, Min(chunk_start + chunk_size, Len(files)))

\* chunk_df.to_csv(output_file, index=False, mode="w")
WriteCsv(frame) == [exists |-> TRUE, lines |-> ToCsv(frame, TRUE)]

\* Variant of AppendCsv: header=False is missing.
AppendCsvWithHeader(tbl, frame) ==
    [exists |-> TRUE, lines |-> tbl.lines \o ToCsv(frame, TRUE)]

\* chunk_df.to_csv(output_file, index=False, mode="a", header=False)
AppendCsv(tbl, frame) ==
    [exists |-> TRUE, lines |-> tbl.lines \o ToCsv(frame, FALSE)]

pullRest == <<store, pc, start_page, end_page, force, i, response, runs,
              fetched, wrote, failed, visited, store0, raw_dir0, end_arg, prev>>

\* merge(chunk_size) up to the batch loop.  Globbing a directory that does
\* not exist finds nothing.
MergeStart ==
    /\ mpc = "idle"
    /\ \E fs \in (IF raw_dir THEN FileLists ELSE {<<>>}), cs \in 1 .. MaxChunk :
        /\ files' = fs
        /\ chunk_size' = cs
        /\ mpc' = IF fs = <<>> THEN "no_input" ELSE "merge"
    /\ chunk_start' = 0
    /\ first_chunk' = TRUE
    /\ total_rows' = 0
    /\ UNCHANGED <<pullVars, table, df, dataset, outcome, log, events>>

\* One iteration of the batch loop.
MergeBatch ==
    /\ mpc = "merge"
    /\ chunk_start < Len(files)
    /\ LET chunk_dataframes == ChunkDataframes(ChunkFiles)
           chunk_df == Concat(chunk_dataframes)
       IN  IF chunk_dataframes # <<>>
             THEN /\ total_rows' = total_rows + Len(chunk_df.rows)
                  /\ table' = IF first_chunk THEN WriteCsv(chunk_df)
                              ELSE AppendCsv(table, chunk_df)
                  /\ first_chunk' = FALSE
             ELSE UNCHANGED <<total_rows, table, first_chunk>>
    /\ chunk_start' = chunk_start + chunk_size
    /\ UNCHANGED <<pullVars, mpc, files, chunk_size, df, dataset, outcome, log,
                   events>>

\* The batch loop is exhausted: merge returns.
MergeDone ==
    /\ mpc = "merge"
    /\ chunk_start >= Len(files)
    /\ mpc' = "merged"
    /\ UNCHANGED <<pullVars, files, chunk_size, chunk_start, first_chunk,
                   total_rows, table, df, dataset, outcome, log, events>>

-----------------------------------------------------------------------------
\* convert

\* Strings pandas' read_csv takes for a missing value (its default na_values,
\* which dtype=str does not switch off).
NaStrings == {"", "NA", "N/A", "NaN", "nan", "null", "NULL", "None", "n/a",
              "<NA>", "#N/A", "#NA", "-NaN", "-nan", "NaN", "#N/A N/A",
              "1.#IND", "-1.#IND", "1.#QNAN", "-1.#QNAN"}

\* One data line parsed against the header: a cell per column, NaN for a
\* missing value and for the columns a short line does not reach.
ParseLine(cells, header) ==
    [c \in SeqRange(header) |->
        LET j == CHOOSE k \in 1 .. Len(header) : header[k] = c
        IN  IF j <= Len(cells) /\ cells[j] \notin NaStrings THEN cells[j] ELSE NaN]

\* on_bad_lines="skip": a line with more fields than the header is dropped.
GoodLines(lines) ==
    SelectSeq(Tail(lines), LAMBDA l : Len(l.cells) <= Len(Head(lines).cells))

\* chunk[col].apply(lambda x: str(x) if pd.notna(x) else "")
FillNa(rows) ==
    [k \in 1 .. Len(rows) |->
        [c \in DOMAIN rows[k] |-> IF rows[k][c] = NaN THEN "" ELSE rows[k][c]]]

\* The chunks pd.read_csv(chunksize=n) yields, each after the fill above.
RECURSIVE ReadChunks(_, _, _)
ReadChunks(header, rows, n) ==
    IF rows = <<>> THEN <<>>
    ELSE <<[columns |-> header, rows |-> FillNa(SubSeq(rows, 1, Min(n, Len(rows))))]>>
         \o ReadChunks(header, SubSeq(rows, n + 1, Len(rows)), n)

\* chunk_list of load_large_csv_to_pd(input_file, chunk_size)
ChunkList(lines, n) ==
    LET header == Head(lines).cells
        good == GoodLines(lines)
    IN  ReadChunks(header,
                   [k \in 1 .. Len(good) |-> ParseLine(good[k].cells, header)], n)

\* df[col] = df[col].astype(str), column by column
AsTypeStr(frame) ==
    [columns |-> frame.columns,
     rows |-> [k \in 1 .. Len(frame.rows) |->
                 [c \in DOMAIN frame.rows[k] |->
                    IF frame.rows[k][c] = NaN THEN "nan" ELSE frame.rows[k][c]]]]

\* The exception classes told apart: those the inner except clause names,
\* and any other subclass of Exception.
ExcKinds == {"ImportError", "ValueError", "OSError", "OtherException"}

\* Variant of FallbackKinds: OSError is not listed.
FallbackKindsNoOSError == {"ImportError", "ValueError"}

\* except (ImportError, ValueError, OSError) as parquet_error
FallbackKinds == {"ImportError", "ValueError", "OSError"}

Event(op, res) == [op |-> op, res |-> res]

Parquet(frame, compression) ==
    [exists |-> TRUE, columns |-> frame.columns, rows |-> frame.rows,
     compression |-> compression]

\* `except Exception as e: logger.error(f"Conversion failed: {e}")`
CaughtAtTop ==
    /\ log' = Append(log, "Conversion failed")
    /\ outcome' = "caught"
    /\ mpc' = "conv_end"

\* convert(chunk_size) up to the try block: the two mkdir calls, which may
\* raise OSError to the caller.
ConvertStart ==
    /\ mpc \in {"idle", "merged", "no_input"}
    /\ \E cs \in 1 .. MaxChunk : chunk_size' = cs
    /\ \E ok \in BOOLEAN :
         IF ok
           THEN /\ raw_dir' = TRUE
                /\ mpc' = "conv_load"
                /\ events' = Append(events, Event("mkdir", "ok"))
                /\ UNCHANGED outcome
           ELSE /\ outcome' = "raised"
                /\ mpc' = "conv_end"
                /\ events' = Append(events, Event("mkdir", "OSError"))
                /\ UNCHANGED raw_dir
    /\ UNCHANGED <<pullRest, files, chunk_start, first_chunk, total_rows, table,
                   df, dataset, log>>

\* load_large_csv_to_pd and the astype(str) pass.  The load raises when the
\* interim table is missing, when no chunk was read, or for a cause outside
\* the model (a parser or memory error).
ConvertLoad ==
    /\ mpc = "conv_load"
    /\ \E ok \in BOOLEAN :
         IF ok /\ table.exists /\ table.lines # <<>>
               /\ ChunkList(table.lines, chunk_size) # <<>>
           THEN /\ df' = AsTypeStr(Concat(ChunkList(table.lines, chunk_size)))
                /\ mpc' = "conv_write"
                /\ events' = Append(events, Event("load", "ok"))
                /\ UNCHANGED <<log, outcome>>
           ELSE /\ events' = Append(events, Event("load", "Exception"))
                /\ CaughtAtTop
                /\ UNCHANGED df
    /\ UNCHANGED <<pullVars, files, chunk_size, chunk_start, first_chunk,
                   total_rows, table, dataset>>

\* The primary write: to_parquet(compression="snappy").
ConvertWrite ==
    /\ mpc = "conv_write"
    /\ \E res \in {"ok"} \cup ExcKinds :
        /\ events' = Append(events, Event("primary", res))
        /\ IF res = "ok"
             THEN /\ dataset' = Parquet(df, "snappy")
                  /\ outcome' = "ok"
                  /\ mpc' = "conv_end"
                  /\ UNCHANGED log
             ELSE IF res \in FallbackKinds
             THEN /\ log' = Append(log, "Parquet conversion error")
                  /\ mpc' = "conv_fallback"
                  /\ UNCHANGED <<dataset, outcome>>
             ELSE /\ CaughtAtTop
                  /\ UNCHANGED dataset
    /\ UNCHANGED <<pullVars, files, chunk_size, chunk_start, first_chunk,
                   total_rows, table, df>>

\* Variant of ConvertFallback: an exception of the fallback write reaches the
\* caller.
ConvertFallbackRaises ==
    /\ mpc = "conv_fallback"
    /\ \E res \in {"ok"} \cup ExcKinds :
        /\ events' = Append(events, Event("fallback", res))
        /\ IF res = "ok"
             THEN /\ dataset' = Parquet(df, "none")
                  /\ outcome' = "ok_fallback"
                  /\ mpc' = "conv_end"
                  /\ UNCHANGED log
             ELSE /\ outcome' = "raised"
                  /\ mpc' = "conv_end"
                  /\ UNCHANGED <<dataset, log>>
    /\ UNCHANGED <<pullVars, files, chunk_size, chunk_start, first_chunk,
                   total_rows, table, df>>

\* The fallback write: to_parquet(compression=None,
\* use_deprecated_int96_timestamps=True), inside the handler of the primary
\* write's exception.
ConvertFallback ==
    /\ mpc = "conv_fallback"
    /\ \E res \in {"ok"} \cup ExcKinds :
        /\ events' = Append(events, Event("fallback", res))
        /\ IF res = "ok"
             THEN /\ dataset' = Parquet(df, "none")
                  /\ outcome' = "ok_fallback"
                  /\ mpc' = "conv_end"
                  /\ UNCHANGED log
             ELSE /\ CaughtAtTop
                  /\ UNCHANGED dataset
    /\ UNCHANGED <<pullVars, files, chunk_size, chunk_start, first_chunk,
                   total_rows, table, df>>

NextTable ==
    \/ MergeStart
    \/ MergeBatch
    \/ MergeDone
    \/ ConvertStart
    \/ ConvertLoad
    \/ ConvertWrite
    \/ ConvertFallback

SpecTable == InitTable /\ [][NextTable]_vars

-----------------------------------------------------------------------------
\* Properties of the pull stage (checked under SpecPull).

\* The page indices of the current run's range [start_page, end_page).
Range == {p \in Pages : start_page <= p /\ p < end_page}

NoFetchNoWrite == (\A p \in Pages : fetched[p] = 0) /\ wrote = {}

\* The current run repeats the range of the run before it, which ran to
\* completion over an empty Page Store.
SecondRun ==
    /\ prev.outcome = "done"
    /\ prev.fromEmpty
    /\ prev.start = start_page
    /\ prev.end = end_page
    /\ start_page < end_page

\* C1 as stated: a first pull run over an empty Page Store leaves exactly one
\* page file per index of [start_page, end_page), and a second run over the
\* same range with force=false fetches nothing and writes nothing.
C1_Original ==
    /\ (pc = "done" /\ Summary.fromEmpty /\ start_page < end_page)
          => \A p \in Pages : Exists(p) <=> p \in Range
    /\ (SecondRun /\ ~force) => NoFetchNoWrite

\* C1 amended: provided every fetch of the first run succeeds, the first run
\* over an empty Page Store leaves exactly one (complete) page file per index
\* of the range and none outside it, and the second run over the same range
\* with force=false fetches nothing and writes nothing.
C1_FirstRunThenIdempotent ==
    /\ (pc = "done" /\ Summary.fromEmpty /\ start_page < end_page /\ failed = {})
          => \A p \in Pages :
                /\ Exists(p) <=> p \in Range
                /\ p \in Range => store[p] = Payload(p, runs)
    /\ (SecondRun /\ prev.allOk /\ ~force) => (NoFetchNoWrite /\ store = store0)

C1_Witness ==
    /\ pc = "done"
    /\ SecondRun
    /\ prev.allOk
    /\ ~force
    /\ end_page - start_page >= 2
    /\ Len(visited) = end_page - start_page
    /\ \A p \in Range : store[p] = Payload(p, 1)

\* C2 as stated: after a pull run was terminated at any point, a re-run over
\* the same range with force=false in which every fetch succeeds ends with a
\* complete payload file for every index of the range.
C2_Original ==
    (/\ pc = "done"
     /\ ~force
     /\ failed = {}
     /\ prev.outcome = "killed"
     /\ prev.start = start_page
     /\ prev.end = end_page)
        => \A p \in Range : IsComplete(store[p]) /\ store[p].page = p

\* C3: a failed fetch neither aborts the run nor is retried: the loop body
\* runs for the indices of the range in ascending order, the run ends only
\* when all of them were processed, each index is fetched at most once per
\* run, and the file of a failed index is neither created nor changed.
C3_FailedFetchSkipped ==
    /\ \A p \in Pages : fetched[p] <= 1
    /\ \A p \in failed : store[p] = store0[p] /\ p \notin wrote /\ i > p
    /\ \A k \in 1 .. Len(visited) : visited[k] = start_page + (k - 1)
    /\ pc = "done" => /\ i >= end_page
                      /\ \A p \in Range : \E k \in 1 .. Len(visited) : visited[k] = p

C3_Witness ==
    /\ pc = "done"
    /\ \E p \in failed : \E q \in Range :
          /\ q > p
          /\ fetched[q] = 1
          /\ store[q] = Payload(q, runs)

\* C4 as stated: a run with force=true re-fetches every index of the range
\* and overwrites its page file, whether or not the file existed.
C4_Original ==
    (pc = "done" /\ force)
        => \A p \in Range : fetched[p] = 1 /\ store[p] = Payload(p, runs)

\* C4 amended: a run with force=true fetches every index of the range once,
\* whether or not its file existed, and overwrites the page file of every
\* index whose fetch succeeds; the file of an index whose fetch fails is left
\* as it was.
C4_ForceRefetches ==
    (pc = "done" /\ force)
        => \A p \in Range :
              /\ fetched[p] = 1
              /\ p \notin failed => (p \in wrote /\ store[p] = Payload(p, runs))
              /\ p \in failed => store[p] = store0[p]

C4_Witness ==
    /\ pc = "done"
    /\ force
    /\ \E p \in Range : store0[p] # Absent /\ store[p] = Payload(p, runs)
                         /\ store[p] # store0[p]
    /\ \E q \in Range : store0[q] = Absent /\ store[q] = Payload(q, runs)

\* A run was started with an explicit end_page <= start_page.
BadRangeRun == runs > 0 /\ end_arg # None /\ end_arg[1] <= start_page

\* C5 as stated: with an explicit end_page <= start_page, pull reports a
\* configuration error, issues no fetch, writes no page file and leaves the
\* filesystem unchanged.
C5_Original ==
    BadRangeRun => /\ pc = "error"
                   /\ NoFetchNoWrite
                   /\ store = store0
                   /\ raw_dir = raw_dir0

\* C5 amended: with an explicit end_page <= start_page, pull reports a
\* configuration error, issues no fetch and writes no page file; the Page
\* Store's files are unchanged, and the only filesystem effect is that the
\* Page Store directory exists afterwards (it is created if absent).
C5_BadRangeNoWork ==
    BadRangeRun => /\ pc = "error"
                   /\ NoFetchNoWrite
                   /\ store = store0
                   /\ raw_dir

C5_Witness ==
    /\ BadRangeRun
    /\ pc = "error"
    /\ end_arg[1] = start_page
    /\ \E p \in Pages : Exists(p)

-----------------------------------------------------------------------------
\* Properties of the merge and convert stages (checked under SpecTable).

\* The records of all page files that parse and have the list field, in the
\* order the files were found.
RECURSIVE AllItems(_)
AllItems(fs) ==
    IF fs = <<>> THEN <<>> ELSE FileItems(Head(fs)) \o AllItems(Tail(fs))

\* The sum of the list-field lengths of the files that parse.
RECURSIVE ListLengthSum(_)
ListLengthSum(fs) ==
    IF fs = <<>> THEN 0
    ELSE (IF Head(fs).kind = "list" THEN Len(Head(fs).list) ELSE 0)
         + ListLengthSum(Tail(fs))

\* The merge run has written the interim table.
MergeWrote == mpc \in {"merge", "merged"} /\ ~first_chunk

\* The cells of record `rec` under the columns `header`, "" for a field the
\* record lacks.
Projected(rec, header) ==
    [j \in 1 .. Len(header) |->
        IF HasField(rec, header[j]) THEN FieldValue(rec, header[j]) ELSE ""]

\* C6 as stated: after a merge run, for every chunk size and discovery
\* order, the interim table has one header equal to the union of the field
\* names of all merged records, and every row holds its record's values
\* under the columns named after the record's fields, empty where the record
\* lacks the field.
C6_Original ==
    (mpc = "merged" /\ ~first_chunk)
        => LET items == AllItems(files)
               header == Head(table.lines).cells
           IN  /\ SeqRange(header) =
                     UNION {SeqRange(FieldNames(items[k])) : k \in 1 .. Len(items)}
               /\ Cardinality(SeqRange(header)) = Len(header)
               /\ Len(table.lines) = Len(items) + 1
               /\ \A k \in 1 .. Len(items) :
                     table.lines[k + 1].cells = Projected(items[k], header)

\* C7: the rows merge has written, and its running total, equal the sum of
\* the list lengths of the files processed so far that parse; files without
\* the list field, unparseable files and empty lists add nothing and do not
\* stop the files and batches after them.
C7_RowCount ==
    /\ mpc \in {"merge", "merged"}
          => /\ total_rows =
                   ListLengthSum(SubSeq(files, 1, Min(chunk_start, Len(files))))
             /\ ~first_chunk => Len(table.lines) - 1 = total_rows
    /\ mpc = "merged" => total_rows = ListLengthSum(files)

C7_Witness ==
    /\ mpc = "merged"
    /\ Len(files) = 3
    /\ chunk_size = 2
    /\ files[1] = BadDoc
    /\ files[2] = ListDoc(<<R1, R2>>)
    /\ files[3] = NoListDoc
    /\ total_rows = 2
    /\ Len(table.lines) = 3

\* C8: once a merge run has written, the interim table holds exactly one
\* header line, its first line, written by the first non-empty batch over a
\* truncated file; every later non-empty batch appends rows only.  Before the
\* first non-empty batch nothing was written.
C8_HeaderOnce ==
    /\ MergeWrote
          => /\ Head(table.lines).kind = "header"
             /\ \A k \in 2 .. Len(table.lines) : table.lines[k].kind = "row"
             /\ Len(table.lines) = 1 + total_rows
    /\ (mpc \in {"merge", "merged"} /\ first_chunk)
          => (total_rows = 0 /\ table \in {NoTable, StaleTable})

C8_Witness ==
    /\ mpc = "merged"
    /\ chunk_size = 1
    /\ Len(files) = 3
    /\ FileItems(files[1]) = <<>>
    /\ FileItems(files[2]) # <<>>
    /\ FileItems(files[3]) # <<>>
    /\ Cardinality({k \in 1 .. Len(table.lines) : table.lines[k].kind = "header"}) = 1

\* C9 as stated: after a successful convert run the columnar dataset has the
\* interim table's column names and as many rows as the interim table.
C9_Original ==
    (mpc = "conv_end" /\ outcome \in {"ok", "ok_fallback"})
        => /\ dataset.columns = Head(table.lines).cells
           /\ Len(dataset.rows) = Len(table.lines) - 1

Failed(op) == \E k \in 1 .. Len(events) : events[k].op = op /\ events[k].res # "ok"

FallbackWrites == Cardinality({k \in 1 .. Len(events) : events[k].op = "fallback"})

====
